---------------------------- MODULE Spec2Model ----------------------------
(***************************************************************************)
(* A model of templateflow/cli.py: the command-line entry point `main`,    *)
(* the `get` operation and the `upload` operation.                         *)
(*                                                                         *)
(* Python strings are sequences of one-character strings, so that          *)
(* startswith, slicing, `in`, join and format are computed, not assumed.   *)
(* The external collaborators (the resolution API, the filesystem's glob,  *)
(* the storage CLI's exit code, the remote listings, the environment) are  *)
(* inputs: the remote tree, the glob results and the environment are drawn *)
(* in the initial state; the exit code, the project's top-level listing    *)
(* and the resolution API's answer are drawn when the call is made.        *)
(***************************************************************************)
EXTENDS Integers, Sequences, FiniteSets, TLC

VARIABLES
    pc,          \* where the program is
    exc,         \* the exception that ended the run, or None
    pargs,       \* argparse's namespace, as vars(pargs)
    template,    \* the callee's `template` parameter
    kwargs,      \* the callee's **kwargs
    tfget_calls, \* the calls made to the resolution API
    fls,         \* what the resolution API returned
    stdout,      \* the text printed
    files,       \* upload's parameters
    force,
    osf_pass,
    osf_dest,
    message,
    environ,     \* os.getenv("OSF_PASSWORD")
    fsglob,      \* the filesystem's answer to glob(pattern)
    project,     \* the top-level project listing
    remote,      \* the remote tree below the template's folder
    sp_calls,    \* the subprocess.run calls: the command and its exit code
    requests,    \* the URLs given to json_from_url
    url,         \* the traversal root
    hits,        \* the manifest's lines
    items,       \* the traversal's work queue
    examined,    \* the items popped from the queue, in order
    manifest,    \* the text written to the manifest file, or None
    tmpdirs,     \* the staging directories made
    staged,      \* the files copied into the staging directory
    addurls_calls, \* the calls made to datalad's addurls
    published    \* the calls made to datalad's publish

vars == <<pc, exc, pargs, template, kwargs, tfget_calls, fls, stdout, files,
          force, osf_pass, osf_dest, message, environ, fsglob, project,
          remote, sp_calls, requests, url, hits, items, examined, manifest,
          tmpdirs, staged, addurls_calls, published>>

getVars == <<tfget_calls, fls, stdout>>

uploadArgs == <<files, force, osf_pass, osf_dest, message>>

world == <<environ, fsglob, project, remote>>

uploadVars == <<sp_calls, requests, url, hits, items, examined, manifest,
                tmpdirs, staged, addurls_calls, published>>

-----------------------------------------------------------------------------
(* Bounds *)

MaxLen == 5        \* longest template argument given to main

MaxFls == 2        \* longest sequence the resolution API returns

MaxItems == 4      \* most items in the remote tree (traversal runs)

SmallItems == 1    \* most items in the remote tree (argument runs)

MaxProject == 2    \* most entries in the top-level project listing

-----------------------------------------------------------------------------
(* Python values *)

\* None: a value that is no string (its one element is not a character).
None == <<"None">>

\* Python's truth value of a string or None.
Truthy(v) == v # None /\ v # <<>>

\* isinstance(v, list), for the tagged values `files` takes.
IsList(v) == v.type = "list"

PyNone == [type |-> "NoneType", val |-> <<>>]

PyList(l) == [type |-> "list", val |-> l]

PyStr(s) == [type |-> "str", val |-> s]

\* str(n) for the small numbers the model prints.
Str(n) == <<CASE n = 0 -> "0" [] n = 1 -> "1" [] n = 2 -> "2" [] n = 3 -> "3"
              [] n = 4 -> "4" [] n = 5 -> "5" [] n = 6 -> "6" [] n = 7 -> "7"
              [] n = 8 -> "8" [] OTHER -> "9">>

\* s.startswith(p)
StartsWith(s, p) == Len(s) >= Len(p) /\ SubSeq(s, 1, Len(p)) = p

\* sub in s
Contains(sub, s) ==
    \E i \in 0..(Len(s) - Len(sub)) : SubSeq(s, i + 1, i + Len(sub)) = sub

\* sep.join(seq)
RECURSIVE Join(_, _)
Join(seq, sep) ==
    IF seq = <<>> THEN <<>>
    ELSE IF Len(seq) = 1 THEN Head(seq)
    ELSE Head(seq) \o sep \o Join(Tail(seq), sep)

\* text.split("\n"): the lines of a text.
RECURSIVE Lines(_)
Lines(text) ==
    IF \A i \in 1..Len(text) : text[i] # "\n" THEN <<text>>
    ELSE LET k == CHOOSE i \in 1..Len(text) :
                      text[i] = "\n" /\ \A j \in 1..(i - 1) : text[j] # "\n"
         IN  <<SubSeq(text, 1, k - 1)>> \o Lines(SubSeq(text, k + 1, Len(text)))

\* Every sequence over S of length at most n.
SeqsUpTo(S, n) == UNION {[1..k -> S] : k \in 0..n}

\* A mapping without one key.
Without(d, k) == [x \in DOMAIN d \ {k} |-> d[x]]

-----------------------------------------------------------------------------
(* Literals of the program *)

tplPrefix == <<"t", "p", "l", "-">>

GET == <<"g", "e", "t">>

UPLOAD == <<"u", "p", "l", "o", "a", "d">>

OSF == <<"o", "s", "f">>

FORCE_FLAG == <<"-", "f">>

NEWLINE == <<"\n">>

COMMA == <<",">>

CSV_HEADER == <<"n", "a", "m", "e", ",", "l", "i", "n", "k">>

NO_FILES_MSG == <<"N", "o", " ", "f", "i", "l", "e", "s">>

HELP_TEXT == <<"u", "s", "a", "g", "e">>

LINK_FIELD == <<"{", "l", "i", "n", "k", "}">>

NAME_FIELD == <<"{", "n", "a", "m", "e", "}">>

\* "tfupload-{}.csv".format(uuid.uuid4()), the uuid left out
OUTPUT_FILENAME == <<"t", "f", "u", "p", "l", "o", "a", "d", ".", "c", "s", "v">>

-----------------------------------------------------------------------------
(* main *)

\* A faulty variant of Normalize: the prefix is added to every argument.
NormalizeAlways(t) == tplPrefix \o t

\* if not pargs.template.startswith("tpl-"): pargs.template = "tpl-%s" % ...
Normalize(t) == IF StartsWith(t, tplPrefix) THEN t ELSE tplPrefix \o t

\* vars(pargs) after main's normalization of the template.
Normalized(ns) == [ns EXCEPT !.template = Normalize(ns.template)]

\* pargs.command is None: print the help and return.
MainHelp ==
    /\ pc = "main"
    /\ pargs.command = None
    /\ stdout' = Append(stdout, HELP_TEXT)
    /\ pc' = "done"
    /\ UNCHANGED <<exc, pargs, template, kwargs, tfget_calls, fls, uploadArgs,
                   world, uploadVars>>

\* get(**vars(pargs)): `template` binds the parameter, the rest is **kwargs.
GetKwargs(ns) == Without(ns, "template")

\* pargs.command == "get": normalize the template and call get(**vars(pargs)).
MainGet ==
    /\ pc = "main"
    /\ pargs.command = GET
    /\ pargs' = Normalized(pargs)
    /\ template' = pargs'.template
    /\ kwargs' = GetKwargs(pargs')
    /\ pc' = "get"
    /\ UNCHANGED <<exc, getVars, uploadArgs, world, uploadVars>>

\* pargs.command == "upload": normalize the template and call
\* upload(**vars(pargs)).
MainUpload ==
    /\ pc = "main"
    /\ pargs.command = UPLOAD
    /\ pargs' = Normalized(pargs)
    /\ template' = pargs'.template
    /\ files' = pargs'.files
    /\ force' = pargs'.force
    /\ osf_pass' = pargs'.osf_pass
    /\ osf_dest' = pargs'.osf_dest
    /\ message' = pargs'.message
    /\ kwargs' = [command |-> pargs'.command]
    /\ pc' = "upload"
    /\ UNCHANGED <<exc, getVars, world, uploadVars>>

-----------------------------------------------------------------------------
(* get *)

\* What the resolution API may hold at one place of its answer.
Paths == {<<"a">>, <<"b">>}

\* template[4:]
StripPrefix(t) == SubSeq(t, 5, Len(t))

\* fls = tfget(template[4:], **kwargs)
GetResolve ==
    /\ pc = "get"
    /\ tfget_calls' = Append(tfget_calls,
                             [template |-> StripPrefix(template),
                              kwargs |-> kwargs])
    /\ \E r \in SeqsUpTo(Paths \cup {None}, MaxFls) : fls' = r
    /\ pc' = "print"
    /\ UNCHANGED <<exc, pargs, template, kwargs, stdout, uploadArgs, world,
                   uploadVars>>

\* [str(f) for f in fls if f]
PathLines(r) == SelectSeq(r, Truthy)

\* "Got {} files{}{}".format(len(fls), ":\n" if fls else "", "\n".join(...))
GotText(r) ==
    <<"G", "o", "t", " ">> \o Str(Len(r)) \o <<" ", "f", "i", "l", "e", "s">>
    \o (IF r # <<>> THEN <<":", "\n">> ELSE <<>>)
    \o Join(PathLines(r), NEWLINE)

\* print(...)
GetPrint ==
    /\ pc = "print"
    /\ stdout' = Append(stdout, GotText(fls))
    /\ pc' = "done"
    /\ UNCHANGED <<exc, pargs, template, kwargs, tfget_calls, fls, uploadArgs,
                   world, uploadVars>>

-----------------------------------------------------------------------------
(* upload: the remote side *)

\* url_from_key(TEMPLATEFLOW_PROJECT_KEY)
ProjectURL == <<"u", "e", "5", "g", "x">>

\* The "move" link of the j-th entry of the top-level project listing.
ProjectMoveLink(j) == <<"r">> \o Str(j)

\* item["links"]["move"] of the remote item i.
MoveLink(i) == <<"m">> \o Str(i)

\* item["links"]["download"] of the remote item i.
DownloadLink(i) == <<"d">> \o Str(i)

\* The items whose parent is p (0: the template's folder), in listing order.
Children(p) ==
    SelectSeq([i \in 1..Len(remote) |-> i], LAMBDA i : remote[i].parent = p)

\* json_from_url(u)["data"] for a "move" link u: the folder's listing.
JsonFromUrl(u) ==
    IF \E i \in 1..Len(remote) : u = MoveLink(i)
    THEN Children(CHOOSE i \in 1..Len(remote) : u = MoveLink(i))
    ELSE Children(0)

\* A faulty variant of FindURL: a name containing the template matches.
FindURLContaining(listing, tpl) ==
    IF \E j \in 1..Len(listing) : Contains(tpl, listing[j])
    THEN ProjectMoveLink(CHOOSE j \in 1..Len(listing) :
             Contains(tpl, listing[j])
             /\ \A k \in 1..(j - 1) : ~Contains(tpl, listing[k]))
    ELSE None

\* for folder in ...: if folder["attributes"]["name"] == template:
\*     url = folder["links"]["move"]; break
FindURL(listing, tpl) ==
    IF \E j \in 1..Len(listing) : listing[j] = tpl
    THEN ProjectMoveLink(CHOOSE j \in 1..Len(listing) :
             listing[j] = tpl /\ \A k \in 1..(j - 1) : listing[k] # tpl)
    ELSE None

-----------------------------------------------------------------------------
(* upload *)

\* A faulty variant of ResolvePass: the environment is asked first.
ResolvePassEnvFirst(given, env) == IF Truthy(env) THEN env ELSE given

\* if osf_pass is None: osf_pass = os.getenv("OSF_PASSWORD")
ResolvePass(given, env) == IF given = None THEN env ELSE given

\* files is None or not isinstance(files, list)
NoFiles(f) == f = PyNone \/ ~IsList(f)

\* Lines 52-61: the password is resolved and asserted, then the files are
\* looked at.
UploadBegin ==
    /\ pc = "upload"
    /\ osf_pass' = ResolvePass(osf_pass, environ)
    /\ IF ~Truthy(osf_pass')
       THEN /\ pc' = "raised"
            /\ exc' = "AssertionError: OSF password is not set"
            /\ stdout' = stdout
       ELSE IF NoFiles(files)
       THEN /\ pc' = "returned"
            /\ exc' = exc
            /\ stdout' = Append(stdout, NO_FILES_MSG)
       ELSE /\ pc' = "run"
            /\ exc' = exc
            /\ stdout' = stdout
    /\ UNCHANGED <<pargs, template, kwargs, tfget_calls, fls, files, force,
                   osf_dest, message, world, uploadVars>>

\* The glob patterns among the files.
Patterns == {<<"*">>}

\* "*" in f
HasStar(f) == \E i \in 1..Len(f) : f[i] = "*"

\* A faulty variant of ExpandFiles: the expansions follow the plain files.
ExpandFilesGlobLast(fs) ==
    SelectSeq(fs, LAMBDA f : ~HasStar(f))
    \o (IF \E i \in 1..Len(fs) : HasStar(fs[i])
        THEN fsglob[CHOOSE f \in Patterns : TRUE] ELSE <<>>)

\* for f in files: if "*" in f: osf_cmd += glob(f) else: osf_cmd.append(f)
RECURSIVE ExpandFiles(_)
ExpandFiles(fs) ==
    IF fs = <<>> THEN <<>>
    ELSE (IF HasStar(Head(fs)) THEN fsglob[Head(fs)] ELSE <<Head(fs)>>)
         \o ExpandFiles(Tail(fs))

\* if osf_dest is None: osf_dest = template
Destination(dest, tpl) == IF dest = None THEN tpl ELSE dest

\* osf_cmd as given to subprocess.run
OsfCmd(frc, fs, dest) ==
    <<OSF, UPLOAD>> \o (IF frc THEN <<FORCE_FLAG>> ELSE <<>>)
    \o ExpandFiles(fs) \o <<dest>>

\* A faulty variant of UploadFailed: the exit code is not looked at.
UploadFailedNever(returncode) == FALSE

\* if proc.returncode != 0: raise RuntimeError("OSF upload error")
UploadFailed(returncode) == returncode # 0

\* Lines 63-75: the command is built and run; a non-zero exit code raises.
UploadRun ==
    /\ pc = "run"
    /\ osf_dest' = Destination(osf_dest, template)
    /\ \E returncode \in {0, 1} :
          /\ sp_calls' = Append(sp_calls,
                                [args |-> OsfCmd(force, files.val, osf_dest'),
                                 returncode |-> returncode])
          /\ IF UploadFailed(returncode)
             THEN pc' = "raised" /\ exc' = "RuntimeError: OSF upload error"
             ELSE pc' = "resolve" /\ exc' = exc
    /\ UNCHANGED <<pargs, template, kwargs, getVars, files, force, osf_pass,
                   message, world, requests, url, hits, items, examined,
                   manifest, tmpdirs, staged, addurls_calls, published>>

\* The names a top-level entry of the project may have.
ProjectNames == {<<"t", "p", "l", "-", "x">>, <<"t", "p", "l", "-", "x", "1">>}

\* The top-level listings the project may answer with.
ProjectListings == SeqsUpTo(ProjectNames, MaxProject)

\* Lines 78-84: the project's top-level listing is searched for the template.
ResolveURL ==
    /\ pc = "resolve"
    /\ \E listing \in ProjectListings : project' = listing
    /\ requests' = Append(requests, ProjectURL)
    /\ url' = FindURL(project', template)
    /\ IF url' = None
       THEN pc' = "raised" /\ exc' = "RuntimeError: No URL found for template"
       ELSE pc' = "list" /\ exc' = exc
    /\ UNCHANGED <<pargs, template, kwargs, getVars, uploadArgs, environ,
                   fsglob, remote, sp_calls, hits, items, examined, manifest,
                   tmpdirs, staged, addurls_calls, published>>

\* Lines 86-87: hits = ["name,link"]; items = json_from_url(url)["data"]
ListRoot ==
    /\ pc = "list"
    /\ hits' = <<CSV_HEADER>>
    /\ requests' = Append(requests, url)
    /\ items' = JsonFromUrl(url)
    /\ pc' = "walk"
    /\ UNCHANGED <<exc, pargs, template, kwargs, getVars, uploadArgs, world,
                   sp_calls, url, examined, manifest, tmpdirs, staged,
                   addurls_calls, published>>

\* ",".join((name, link))
Row(i) == Join(<<remote[i].name, DownloadLink(i)>>, COMMA)

\* A faulty variant of ExpandFolder: the folder's children are dropped.
ExpandFolderDropped(queue, i) == Tail(queue)

\* A faulty variant of ExpandFolder: the folder's children are queued twice.
ExpandFolderTwice(queue, i) ==
    Tail(queue) \o JsonFromUrl(MoveLink(i)) \o JsonFromUrl(MoveLink(i))

\* The queue after a folder is popped: its children go to the end.
ExpandFolder(queue, i) == Tail(queue) \o JsonFromUrl(MoveLink(i))

\* if template in name: hits.append(...)
HitsAfter(h, i, tpl) ==
    IF Contains(tpl, remote[i].name) THEN Append(h, Row(i)) ELSE h

\* Lines 88-97: one turn of `while items:`.
WalkStep ==
    /\ pc = "walk"
    /\ items # <<>>
    /\ LET item == Head(items)
       IN  /\ examined' = Append(examined, item)
           /\ IF remote[item].kind = "folder"
              THEN /\ requests' = Append(requests, MoveLink(item))
                   /\ items' = ExpandFolder(items, item)
                   /\ hits' = hits
              ELSE /\ requests' = requests
                   /\ items' = Tail(items)
                   /\ hits' = HitsAfter(hits, item, template)
    /\ UNCHANGED <<pc, exc, pargs, template, kwargs, getVars, uploadArgs,
                   world, sp_calls, url, manifest, tmpdirs, staged,
                   addurls_calls, published>>

\* Path(output_filename).write_text("\n".join(hits))
ManifestText(h) == Join(h, NEWLINE)

\* Lines 99-100: the queue is empty and the manifest is written.
WriteManifest ==
    /\ pc = "walk"
    /\ items = <<>>
    /\ manifest' = ManifestText(hits)
    /\ pc' = "stage"
    /\ UNCHANGED <<exc, pargs, template, kwargs, getVars, uploadArgs, world,
                   sp_calls, requests, url, hits, items, examined, tmpdirs,
                   staged, addurls_calls, published>>

\* Lines 110-112: tmp = mkdtemp(); for f in files: shutil.copy2(f, tmp).
\* A copy raises when the file does not exist: n files are copied before.
Stage ==
    /\ pc = "stage"
    /\ tmpdirs' = tmpdirs + 1
    /\ \E n \in 0..Len(files.val) :
          /\ staged' = SubSeq(files.val, 1, n)
          /\ IF n < Len(files.val)
             THEN pc' = "raised" /\ exc' = "FileNotFoundError"
             ELSE pc' = "addurls" /\ exc' = exc
    /\ UNCHANGED <<pargs, template, kwargs, getVars, uploadArgs, world,
                   sp_calls, requests, url, hits, items, examined, manifest,
                   addurls_calls, published>>

\* Line 114: dapi.addurls(None, output_filename, '{link}', '{name}', message=message)
AddUrls ==
    /\ pc = "addurls"
    /\ addurls_calls' = Append(addurls_calls,
                               [dataset |-> None, urlfile |-> OUTPUT_FILENAME,
                                urlformat |-> LINK_FIELD,
                                filenameformat |-> NAME_FIELD,
                                message |-> message])
    /\ pc' = "publish"
    /\ UNCHANGED <<exc, pargs, template, kwargs, getVars, uploadArgs, world,
                   sp_calls, requests, url, hits, items, examined, manifest,
                   tmpdirs, staged, published>>

\* Line 115: dapi.publish()
Publish ==
    /\ pc = "publish"
    /\ published' = published + 1
    /\ pc' = "done"
    /\ UNCHANGED <<exc, pargs, template, kwargs, getVars, uploadArgs, world,
                   sp_calls, requests, url, hits, items, examined, manifest,
                   tmpdirs, staged, addurls_calls>>

-----------------------------------------------------------------------------
(* Inputs *)

\* The characters of a template argument.
TemplateChars == {"t", "p", "l", "-"}

\* The template arguments given on the command line.
TemplateArgs == SeqsUpTo(TemplateChars, MaxLen)

\* --kwargs KEY=VAL ...: the default {} or the parsed pairs.
Filters == {<<>>, [desc |-> <<"n">>, suffix |-> <<"d">>]}

\* vars(pargs) as parse_args leaves it.
MainArgs ==
    {[command |-> None]}
    \cup {[command |-> GET, template |-> t, kwargs |-> k] :
             t \in TemplateArgs, k \in Filters}
    \cup {[command |-> UPLOAD, template |-> t, files |-> f, osf_pass |-> None,
           osf_dest |-> None, message |-> None, force |-> FALSE] :
             t \in TemplateArgs, f \in {PyNone, PyList(<<<<"a">>>>)}}

\* The template of the upload runs, as main normalizes it.
TPL_X == <<"t", "p", "l", "-", "x">>

\* What a glob may expand to.
Expansions == {<<>>, <<<<"g">>>>, <<<<"h">>, <<"g">>>>}

\* The kinds and names of the remote items: a folder and a file whose names
\* contain the template, and a file whose name does not.
ItemShapes ==
    {[kind |-> "folder", name |-> <<"t", "p", "l", "-", "x", "1">>],
     [kind |-> "file", name |-> <<"a", "t", "p", "l", "-", "x">>],
     [kind |-> "file", name |-> <<"t", "p", "l", "-">>]}

ItemRecords(k) ==
    {[parent |-> p, kind |-> s.kind, name |-> s.name] :
        p \in 0..(k - 1), s \in ItemShapes}

\* The finite remote trees of at most n items: an item's parent is the
\* template's folder (0) or a folder listed before it.
Trees(n) ==
    UNION {{r \in [1..k -> ItemRecords(k)] :
               \A i \in 1..k :
                  /\ r[i].parent < i
                  /\ r[i].parent # 0 => r[r[i].parent].kind = "folder"} :
           k \in 0..n}

-----------------------------------------------------------------------------
(* Specifications *)

\* The state before any call: nothing called, printed, requested or written.
Fresh ==
    /\ exc = ""
    /\ tfget_calls = <<>>
    /\ fls = <<>>
    /\ stdout = <<>>
    /\ project = <<>>
    /\ sp_calls = <<>>
    /\ requests = <<>>
    /\ url = None
    /\ hits = <<>>
    /\ items = <<>>
    /\ examined = <<>>
    /\ manifest = None
    /\ tmpdirs = 0
    /\ staged = <<>>
    /\ addurls_calls = <<>>
    /\ published = 0

\* main(pargs) is entered with the command line parsed.
InitMain ==
    /\ pc = "main"
    /\ pargs \in MainArgs
    /\ template = None
    /\ kwargs = <<>>
    /\ files = PyNone
    /\ force = FALSE
    /\ osf_pass = None
    /\ osf_dest = None
    /\ message = None
    /\ environ = None
    /\ fsglob = [p \in Patterns |-> <<>>]
    /\ remote = <<>>
    /\ Fresh

NextMain == MainHelp \/ MainGet \/ MainUpload \/ GetResolve \/ GetPrint

SpecMain == InitMain /\ [][NextMain]_vars

\* upload(...) is entered with arguments from the given sets.
UploadEntered(Fs, Frc, Pw, Env, Dst, Msg, Rem) ==
    /\ pc = "upload"
    /\ pargs = <<>>
    /\ template = TPL_X
    /\ kwargs = <<>>
    /\ files \in Fs
    /\ force \in Frc
    /\ osf_pass \in Pw
    /\ osf_dest \in Dst
    /\ message \in Msg
    /\ environ \in Env
    /\ fsglob \in [Patterns -> Expansions]
    /\ remote \in Rem
    /\ Fresh

\* The values `files` takes when upload is called.
FilesArgs ==
    {PyNone, PyStr(<<"a">>), PyList(<<>>), PyList(<<<<"a">>>>),
     PyList(<<<<"*">>>>), PyList(<<<<"a">>, <<"*">>, <<"b">>>>),
     PyList(<<<<"*">>, <<"a">>>>)}

InitUpload ==
    UploadEntered(FilesArgs, BOOLEAN, {None, <<>>, <<"s">>},
                  {None, <<>>, <<"e">>}, {None, <<"d">>}, {None},
                  Trees(SmallItems))

NextUpload ==
    \/ UploadBegin
    \/ UploadRun
    \/ ResolveURL
    \/ ListRoot
    \/ WalkStep
    \/ WriteManifest
    \/ Stage
    \/ AddUrls
    \/ Publish

SpecUpload == InitUpload /\ [][NextUpload]_vars

InitWalk ==
    UploadEntered({PyList(<<<<"a">>>>)}, {FALSE}, {None}, {None, <<"e">>},
                  {None}, {<<"m">>}, Trees(MaxItems))

SpecWalk == InitWalk /\ [][NextUpload]_vars

\* The program runs on: each step is taken once it can be.
FairSpecWalk == SpecWalk /\ WF_vars(NextUpload)

-----------------------------------------------------------------------------
(* Properties of main and get, under SpecMain *)

\* C8: main passes on a template argument that starts with "tpl-" unchanged,
\* and any other argument with "tpl-" put before it; normalizing the result
\* again changes nothing.
C8_TemplateNormalized ==
    [][(pc = "main" /\ pargs.command # None) =>
          LET a == pargs.template
              t == template'
          IN  /\ pc' \in {"get", "upload"}
              /\ IF /\ Len(a) >= 4
                    /\ a[1] = "t" /\ a[2] = "p" /\ a[3] = "l" /\ a[4] = "-"
                 THEN t = a
                 ELSE /\ Len(t) = Len(a) + 4
                      /\ t[1] = "t" /\ t[2] = "p" /\ t[3] = "l" /\ t[4] = "-"
                      /\ \A i \in 1..Len(a) : t[i + 4] = a[i]
              /\ Normalize(t) = t]_vars

\* upload was handed "tpl-tpl", made from the unprefixed argument "tpl".
C8_Witness ==
    /\ pc = "upload"
    /\ template = <<"t", "p", "l", "-", "t", "p", "l">>

\* C3: the resolution API is called with the prefix-stripped template and
\* with exactly the user's KEY=VAL filters as keyword arguments.
C3_OnlyFiltersPassed ==
    \A i \in 1..Len(tfget_calls) :
        /\ tfget_calls[i].template = StripPrefix(pargs.template)
        /\ DOMAIN tfget_calls[i].kwargs = DOMAIN pargs.kwargs
        /\ tfget_calls[i].kwargs = pargs.kwargs

\* C9: the count N printed in "Got N files" is the number of path lines
\* after it, and the path lines are the returned entries in returned order.
C9_CountEqualsPathLines ==
    (pc = "done" /\ pargs.command = GET) =>
        LET ls == Lines(stdout[1])
            rows == Tail(ls)
            got(n) == <<"G", "o", "t", " ">> \o Str(n)
                      \o <<" ", "f", "i", "l", "e", "s">>
        IN  /\ \E n \in 0..9 :
                  /\ Head(ls) \in {got(n), got(n) \o <<":">>}
                  /\ n = Len(rows)
            /\ rows = fls

-----------------------------------------------------------------------------
(* Properties of upload's arguments and failures, under SpecUpload *)

\* C2: with a password resolved, a `files` argument that is an empty list
\* or no list makes upload return without a subprocess call, a listing
\* request, a manifest or an exception (at "run" the subprocess call is the
\* next step: the state after it decides).
C2_NoFilesIsNoOp ==
    (pc # "upload" /\ Truthy(osf_pass)
        /\ (files = PyList(<<>>) \/ NoFiles(files))) =>
        /\ sp_calls = <<>>
        /\ requests = <<>>
        /\ manifest = None
        /\ exc = ""
        /\ pc \in {"returned", "run"}

C5_FailedUploadStops ==
    \A i \in 1..Len(sp_calls) :
        sp_calls[i].returncode # 0 =>
            /\ pc = "raised"
            /\ exc = "RuntimeError: OSF upload error"
            /\ Len(sp_calls) = 1
            /\ requests = <<>>
            /\ manifest = None
            /\ tmpdirs = 0
            /\ staged = <<>>
            /\ addurls_calls = <<>>
            /\ published = 0

C5_Witness ==
    /\ pc = "raised"
    /\ sp_calls # <<>>
    /\ sp_calls[1].returncode = 1

\* C6: when neither the osf_pass argument nor, in its absence, OSF_PASSWORD
\* gives a non-empty password, upload's first step raises the assertion
\* error whatever `files` is, and nothing else ever happens in that run; an
\* osf_pass argument that is given is the password, whatever OSF_PASSWORD is.
C6_NoPasswordFailsFirst ==
    /\ [][pc = "upload" =>
             /\ ((/\ osf_pass \in {None, <<>>}
                  /\ osf_pass = None => environ \in {None, <<>>})
                 => /\ pc' = "raised"
                    /\ exc' = "AssertionError: OSF password is not set"
                    /\ stdout' = stdout)
             /\ osf_pass # None => osf_pass' = osf_pass]_vars
    /\ [](exc = "AssertionError: OSF password is not set" =>
             /\ pc = "raised"
             /\ stdout = <<>>
             /\ sp_calls = <<>>
             /\ requests = <<>>
             /\ manifest = None
             /\ tmpdirs = 0
             /\ addurls_calls = <<>>
             /\ published = 0)

\* The empty osf_pass argument was kept although OSF_PASSWORD was set.
C6_Witness ==
    /\ pc = "raised"
    /\ exc = "AssertionError: OSF password is not set"
    /\ osf_pass = <<>>
    /\ environ = <<"e">>
    /\ files = PyList(<<<<"a">>>>)

\* C7: the command run is "osf", "upload", then "-f" exactly when force is
\* set, then the files with every entry holding "*" replaced in place by its
\* expansion and the others unchanged, then the destination: osf_dest when
\* given, the template otherwise.
C7_CommandLayout ==
    [][pc = "run" =>
          LET cmd == sp_calls'[Len(sp_calls')].args
              fs == files.val
              first == IF force THEN 4 ELSE 3
              mid == SubSeq(cmd, first, Len(cmd) - 1)
          IN  /\ Len(sp_calls') = 1
              /\ Len(cmd) >= first
              /\ cmd[1] = OSF
              /\ cmd[2] = UPLOAD
              /\ force => cmd[3] = FORCE_FLAG
              /\ ~force => \A k \in 1..Len(cmd) : cmd[k] # FORCE_FLAG
              /\ cmd[Len(cmd)] = (IF osf_dest # None THEN osf_dest
                                  ELSE template)
              /\ \E start \in [1..(Len(fs) + 1) -> 1..(Len(mid) + 1)] :
                    /\ start[1] = 1
                    /\ start[Len(fs) + 1] = Len(mid) + 1
                    /\ \A i \in 1..Len(fs) :
                          /\ start[i] <= start[i + 1]
                          /\ SubSeq(mid, start[i], start[i + 1] - 1)
                             = (IF \E c \in 1..Len(fs[i]) : fs[i][c] = "*"
                                THEN fsglob[fs[i]] ELSE <<fs[i]>>)]_vars

\* The forced upload of a plain file, a pattern with two matches and a
\* plain file, to the default destination.
C7_Witness ==
    /\ sp_calls # <<>>
    /\ force
    /\ files = PyList(<<<<"a">>, <<"*">>, <<"b">>>>)
    /\ fsglob[<<"*">>] = <<<<"h">>, <<"g">>>>
    /\ osf_dest = template

-----------------------------------------------------------------------------
(* Properties of the remote traversal, under SpecWalk and FairSpecWalk *)

\* How often x is in seq.
Count(seq, x) == Cardinality({k \in 1..Len(seq) : seq[k] = x})

\* The remote files whose name contains the template.
MatchingFiles ==
    {i \in 1..Len(remote) :
        remote[i].kind = "file" /\ Contains(template, remote[i].name)}

\* C1: the manifest's first line is "name,link"; after it there is exactly
\* one "name,download-link" line for each remote file, at any depth, whose
\* name contains the template, and no other line: none for a folder, none
\* for a file whose name does not contain the template.
C1_ManifestRows ==
    manifest # None =>
        LET ls == Lines(manifest)
            rows == Tail(ls)
            line(i) == remote[i].name \o <<",">> \o DownloadLink(i)
        IN  /\ Head(ls) = <<"n", "a", "m", "e", ",", "l", "i", "n", "k">>
            /\ \A i \in MatchingFiles : Count(rows, line(i)) = 1
            /\ \A i \in (1..Len(remote)) \ MatchingFiles :
                  Count(rows, line(i)) = 0
            /\ Len(rows) = Cardinality(MatchingFiles)

\* The manifest of a tree with a matching file inside a folder inside a
\* folder, and a file that does not match.
C1_Witness ==
    /\ manifest # None
    /\ \E i, j, k \in 1..Len(remote) :
          /\ remote[i].kind = "folder" /\ remote[i].parent = 0
          /\ remote[j].kind = "folder" /\ remote[j].parent = i
          /\ k \in MatchingFiles /\ remote[k].parent = j
    /\ \E i \in 1..Len(remote) :
          remote[i].kind = "file" /\ i \notin MatchingFiles

\* C10: the traversal ends; when the manifest is written the queue is empty,
\* every folder's listing was requested exactly once and every item was
\* popped exactly once.
C10_TraversalEnds ==
    /\ (pc = "walk") ~> (manifest # None)
    /\ [](manifest # None =>
             /\ items = <<>>
             /\ \A i \in 1..Len(remote) :
                   /\ Count(examined, i) = 1
                   /\ remote[i].kind = "folder" =>
                         Count(requests, MoveLink(i)) = 1
                   /\ remote[i].kind = "file" =>
                         Count(requests, MoveLink(i)) = 0
             /\ Count(requests, url) = 1
             /\ Len(requests) = 2 + Cardinality({i \in 1..Len(remote) :
                                                    remote[i].kind = "folder"}))

\* The traversal of a full tree with a folder inside a folder is over.
C10_Witness ==
    /\ pc = "stage"
    /\ Len(remote) = MaxItems
    /\ \E i, j \in 1..Len(remote) :
          /\ remote[i].kind = "folder" /\ remote[i].parent # 0
          /\ remote[j].parent = i

=============================================================================
